---- MODULE Spec2Model ----
(***************************************************************************)
(* Exam seating generator: the generate-seating route.                     *)
(*                                                                         *)
(* The model follows src/unnamed/part_000 (the greedy allocator version of *)
(* the route): calculateRoomDistribution, distributeStudentsWithMinPerClass,*)
(* assignSeatsSmartly, getAdjacentClasses and the POST handler.            *)
(*                                                                         *)
(* Strings of digits (prefixes, exam ids) are sequences of digits 0..9.    *)
(* Grade keys are ASCII stand-ins: "grade7" = 七年级, "grade8" = 八年级,   *)
(* "grade9" = 九年级, "unknown" = 未知年级, "" = a missing/empty grade.    *)
(* Math.random() is a nondeterministic choice.                             *)
(***************************************************************************)
EXTENDS Integers, Sequences, FiniteSets, Bags, TLC

VARIABLES
  \* the request body (POST, lines 443-452)
  students, studentsPerRoom, distributionStrategy, gradePrefixes,
  \* position of the handler
  pc,
  \* POST locals
  studentsByGrade, gradeIndex, grade, roomStudentsList, roomIndex,
  allSeatingArrangements, response,
  \* distributeStudentsWithMinPerClass locals
  roomSizes, rooms, shuffledByClass, remainingStudents,
  \* assignSeatsSmartly locals
  grid, studentPool, cell,
  \* a direct call of calculateRoomDistribution
  sizerInput, sizerOutput,
  \* the page (page.tsx): component state, the browser's localStorage, the
  \* body and the response of a fetch in flight, the exported workbook
  pageStudents, seatingArrangements, localStorage, prefix, loading, error,
  bodyPrefix, uploadResponse, workbook

requestVars == <<students, studentsPerRoom, distributionStrategy, gradePrefixes>>
postVars == <<studentsByGrade, gradeIndex, grade, roomStudentsList, roomIndex>>
outVars == <<allSeatingArrangements, response>>
allocVars == <<roomSizes, rooms, shuffledByClass, remainingStudents>>
gridVars == <<grid, studentPool, cell>>
sizerVars == <<sizerInput, sizerOutput>>
pageVars == <<pageStudents, seatingArrangements, localStorage, prefix, loading,
              error, bodyPrefix, uploadResponse, workbook>>
vars == <<requestVars, pc, postVars, outVars, allocVars, gridVars, sizerVars,
          pageVars>>

----------------------------------------------------------------------------
\* Bounds of the model

\* the rosters of one or two blocks drawn by Init have at most this many students
MaxStudents == 7
\* the size of the large one-class rosters drawn by Init
LargeRoster == 97
\* lists of at most this length are shuffled into every order;
\* longer lists are explored in their given order only
MaxShuffle == 7
\* direct calls of the first allocator of generate-seating/route.ts: classes
\* of at most this many students, capacities up to the same number
MaxTrimBlock == 10
\* direct calls of calculateRoomDistribution: totalStudents in 1..MaxPlanTotal
MaxPlanTotal == 120
\* direct calls of calculateRoomDistribution: studentsPerRoom in 1..MaxPlanPerRoom
MaxPlanPerRoom == 75

\* direct calls of assignSeatsSmartly: lists of at most MaxGridList students
MaxGridList == 8
\* direct calls of assignSeatsSmartly: one-class lists of at most MaxUniformList
MaxUniformList == 36
ScaleClasses == 24
ScaleClassSize == 40
ScaleLongClass == 404
ScalePerRoom == 13
\* requests of two grades: at most MaxOrderBlock students of each
MaxOrderBlock == 2

----------------------------------------------------------------------------
\* Generic helpers

Null == <<>>

Range(s) == {s[i] : i \in DOMAIN s}

\* the sum of a sequence of numbers, halving the sequence
RECURSIVE SumSeq(_)
SumSeq(s) ==
  IF s = <<>> THEN 0
  ELSE IF Len(s) = 1 THEN s[1]
  ELSE LET mid == Len(s) \div 2
       IN SumSeq(SubSeq(s, 1, mid)) + SumSeq(SubSeq(s, mid + 1, Len(s)))

\* the concatenation of a sequence of sequences, halving the sequence
RECURSIVE Flatten(_)
Flatten(ss) ==
  IF ss = <<>> THEN <<>>
  ELSE IF Len(ss) = 1 THEN ss[1]
  ELSE LET mid == Len(ss) \div 2
       IN Flatten(SubSeq(ss, 1, mid)) \o Flatten(SubSeq(ss, mid + 1, Len(ss)))

\* s without its i-th element (Array.prototype.splice(i, 1), 1-based i)
RemoveAt(s, i) == SubSeq(s, 1, i - 1) \o SubSeq(s, i + 1, Len(s))

\* Array.prototype.slice(from, to) with 0-based from/to, clamped to the array
Slice(s, from, to) ==
  LET hi == IF to > Len(s) THEN Len(s) ELSE to
  IN IF from >= hi THEN <<>> ELSE SubSeq(s, from + 1, hi)

Min2(a, b) == IF a < b THEN a ELSE b

\* the multiset of the elements of a sequence
BagOfSeq(s) == [x \in Range(s) |-> Cardinality({i \in DOMAIN s : s[i] = x})]

\* index of the first occurrence of x in s (0 when absent)
RECURSIVE IndexOf(_, _, _)
IndexOf(s, x, i) ==
  IF i > Len(s) THEN 0 ELSE IF s[i] = x THEN i ELSE IndexOf(s, x, i + 1)

\* all distinct orders of the elements of s
RECURSIVE AllOrders(_)
AllOrders(s) ==
  IF s = <<>> THEN {<<>>}
  ELSE UNION { { <<x>> \o p : p \in AllOrders(RemoveAt(s, IndexOf(s, x, 1))) }
               : x \in Range(s) }

----------------------------------------------------------------------------
\* calculateRoomDistribution (part_000 lines 174-215)

Strategies == {"last", "separate", "average"}

\* the "last" strategy dropping the remainder instead of adding it to the
\* last room
calculateRoomDistribution_dropRemainder(totalStudents, perRoom, strategy) ==
  LET fullRooms == totalStudents \div perRoom
      remainder == totalStudents % perRoom
  IN IF remainder = 0
       THEN [i \in 1..fullRooms |-> perRoom]
     ELSE IF strategy = "last"
       THEN IF fullRooms > 0
              THEN [i \in 1..fullRooms |-> perRoom]
              ELSE <<remainder>>
     ELSE IF strategy = "separate"
       THEN [i \in 1..(fullRooms + 1) |->
               IF i <= fullRooms THEN perRoom ELSE remainder]
     ELSE LET baseSize == totalStudents \div (fullRooms + 1)
              extra == totalStudents % (fullRooms + 1)
          IN [i \in 1..(fullRooms + 1) |->
                baseSize + (IF i - 1 < extra THEN 1 ELSE 0)]

\* the "last" strategy giving the remainder a room of its own
calculateRoomDistribution_lastAsSeparate(totalStudents, perRoom, strategy) ==
  LET fullRooms == totalStudents \div perRoom
      remainder == totalStudents % perRoom
  IN IF remainder = 0
       THEN [i \in 1..fullRooms |-> perRoom]
     ELSE IF strategy = "average"
       THEN LET baseSize == totalStudents \div (fullRooms + 1)
                extra == totalStudents % (fullRooms + 1)
            IN [i \in 1..(fullRooms + 1) |->
                  baseSize + (IF i - 1 < extra THEN 1 ELSE 0)]
     ELSE [i \in 1..(fullRooms + 1) |->
             IF i <= fullRooms THEN perRoom ELSE remainder]

\* the "average" strategy giving the extra students to the last rooms
calculateRoomDistribution_extraLast(totalStudents, perRoom, strategy) ==
  LET fullRooms == totalStudents \div perRoom
      remainder == totalStudents % perRoom
  IN IF remainder = 0
       THEN [i \in 1..fullRooms |-> perRoom]
     ELSE IF strategy = "last"
       THEN IF fullRooms > 0
              THEN [i \in 1..fullRooms |->
                      IF i = fullRooms THEN perRoom + remainder ELSE perRoom]
              ELSE <<remainder>>
     ELSE IF strategy = "separate"
       THEN [i \in 1..(fullRooms + 1) |->
               IF i <= fullRooms THEN perRoom ELSE remainder]
     ELSE LET baseSize == totalStudents \div (fullRooms + 1)
              extra == totalStudents % (fullRooms + 1)
          IN [i \in 1..(fullRooms + 1) |->
                baseSize + (IF i > fullRooms + 1 - extra THEN 1 ELSE 0)]

\* the "average" strategy splitting across the full rooms only
calculateRoomDistribution_averageFullRooms(totalStudents, perRoom, strategy) ==
  LET fullRooms == totalStudents \div perRoom
      remainder == totalStudents % perRoom
  IN IF remainder = 0
       THEN [i \in 1..fullRooms |-> perRoom]
     ELSE IF strategy = "last"
       THEN IF fullRooms > 0
              THEN [i \in 1..fullRooms |->
                      IF i = fullRooms THEN perRoom + remainder ELSE perRoom]
              ELSE <<remainder>>
     ELSE IF strategy = "separate"
       THEN [i \in 1..(fullRooms + 1) |->
               IF i <= fullRooms THEN perRoom ELSE remainder]
     ELSE IF fullRooms = 0 THEN <<totalStudents>>
     ELSE LET baseSize == totalStudents \div fullRooms
              extra == totalStudents % fullRooms
          IN [i \in 1..fullRooms |->
                baseSize + (IF i - 1 < extra THEN 1 ELSE 0)]

\* the plan without the early return for a remainder of 0 (lines 182-185)
calculateRoomDistribution_noEarlyReturn(totalStudents, perRoom, strategy) ==
  LET fullRooms == totalStudents \div perRoom
      remainder == totalStudents % perRoom
  IN IF strategy = "last"
       THEN IF fullRooms > 0
              THEN [i \in 1..fullRooms |->
                      IF i = fullRooms THEN perRoom + remainder ELSE perRoom]
              ELSE <<remainder>>
     ELSE IF strategy = "separate"
       THEN [i \in 1..(fullRooms + 1) |->
               IF i <= fullRooms THEN perRoom ELSE remainder]
     ELSE LET baseSize == totalStudents \div (fullRooms + 1)
              extra == totalStudents % (fullRooms + 1)
          IN [i \in 1..(fullRooms + 1) |->
                baseSize + (IF i - 1 < extra THEN 1 ELSE 0)]

calculateRoomDistribution(totalStudents, perRoom, strategy) ==
  LET fullRooms == totalStudents \div perRoom
      remainder == totalStudents % perRoom
  IN IF remainder = 0
       THEN [i \in 1..fullRooms |-> perRoom]
     ELSE IF strategy = "last"
       THEN IF fullRooms > 0
              THEN [i \in 1..fullRooms |->
                      IF i = fullRooms THEN perRoom + remainder ELSE perRoom]
              ELSE <<remainder>>
     ELSE IF strategy = "separate"
       THEN [i \in 1..(fullRooms + 1) |->
               IF i <= fullRooms THEN perRoom ELSE remainder]
     ELSE LET baseSize == totalStudents \div (fullRooms + 1)
              extra == totalStudents % (fullRooms + 1)
          IN [i \in 1..(fullRooms + 1) |->
                baseSize + (IF i - 1 < extra THEN 1 ELSE 0)]

----------------------------------------------------------------------------
\* Ordered maps (JavaScript Map): a sequence of [key, items] entries in
\* insertion order

MapHas(m, k) == \E i \in DOMAIN m : m[i].key = k

MapSet(m, k, v) ==
  IF MapHas(m, k)
    THEN [i \in DOMAIN m |-> IF m[i].key = k THEN [key |-> k, items |-> v] ELSE m[i]]
    ELSE Append(m, [key |-> k, items |-> v])

\* String(student.grade || "未知年级") (line 468)
GradeKey(student) == IF student.grade = "" THEN "unknown" ELSE student.grade

\* String(student.className || "") (line 231)
ClassKey(student) == student.className

\* the key a student is grouped under, by grade or by class
KeyOf(student, byGrade) == IF byGrade THEN GradeKey(student) ELSE ClassKey(student)

\* students.forEach(student => { if (!map.has(key)) map.set(key, []);
\* map.get(key).push(student) }): the keys in the order of their first
\* student, each with its students in list order
GroupBy(s, byGrade) ==
  LET keys == {KeyOf(s[i], byGrade) : i \in DOMAIN s}
      first == [k \in keys |->
                  CHOOSE i \in DOMAIN s :
                    /\ KeyOf(s[i], byGrade) = k
                    /\ \A j \in 1..(i - 1) : KeyOf(s[j], byGrade) # k]
      ordered == [n \in 1..Cardinality(keys) |->
                    CHOOSE k \in keys :
                      Cardinality({k2 \in keys : first[k2] < first[k]}) = n - 1]
  IN [n \in DOMAIN ordered |->
        [key |-> ordered[n],
         items |-> SelectSeq(s, LAMBDA st : KeyOf(st, byGrade) = ordered[n])]]

\* POST lines 466-473
GroupByGrade(s) == GroupBy(s, TRUE)

\* distributeStudentsWithMinPerClass lines 229-236
GroupByClass(s) == GroupBy(s, FALSE)

----------------------------------------------------------------------------
\* [...list].sort(() => Math.random() - 0.5): any order of the list

Shuffle(s) == IF Len(s) <= MaxShuffle THEN AllOrders(s) ELSE {s}

\* one shuffle per entry of an ordered map (lines 284-287)
RECURSIVE ShuffleEach(_)
ShuffleEach(m) ==
  IF m = <<>> THEN {<<>>}
  ELSE { <<[key |-> Head(m).key, items |-> p]>> \o rest :
           p \in Shuffle(Head(m).items), rest \in ShuffleEach(Tail(m)) }

----------------------------------------------------------------------------
\* String(n).padStart(2, "0") and the exam id (lines 137-141)

RECURSIVE Digits(_)
Digits(n) == IF n < 10 THEN <<n>> ELSE Digits(n \div 10) \o <<n % 10>>

PadWidth == 2

RECURSIVE PadStart(_, _)
PadStart(ds, width) == IF Len(ds) >= width THEN ds ELSE PadStart(<<0>> \o ds, width)

DefaultPrefix == <<0, 0, 0, 1, 1>>

\* the default value of gradePrefixes (lines 445-449)
DefaultGradePrefixes ==
  [g \in {"grade7", "grade8", "grade9"} |->
     IF g = "grade7" THEN <<0, 7, 0, 1, 1>>
     ELSE IF g = "grade8" THEN <<0, 8, 0, 1, 1>>
     ELSE <<0, 9, 0, 1, 1>>]

\* gradePrefixes[studentGrade] || "00011"
PrefixFor(prefixes, studentGrade) ==
  IF studentGrade \in DOMAIN prefixes /\ prefixes[studentGrade] # <<>>
    THEN prefixes[studentGrade]
    ELSE DefaultPrefix

ExamId(prefixes, studentGrade, roomNumber, seatNumber) ==
  PrefixFor(prefixes, studentGrade)
    \o PadStart(Digits(roomNumber), PadWidth)
    \o PadStart(Digits(seatNumber), PadWidth)

\* grade === "八年级" ? 4 : grade === "九年级" ? 5 : 0 (lines 225-226)
MinPerClassPerRoom(g) == IF g = "grade8" THEN 4 ELSE IF g = "grade9" THEN 5 ELSE 0

\* the largest accepted studentsPerRoom (line 458)
MaxPerRoom == 72

----------------------------------------------------------------------------
\* distributeStudentsWithMinPerClass (part_000 lines 218-439)

MapKeys(m) == {m[i].key : i \in DOMAIN m}

\* rooms = roomSizes.map(size => ({students: [], classCounts: new Map(),
\* currentSize: 0, targetSize: size})) (lines 276-281); classCounts.get(c) || 0
\* reads an absent key as 0, so the map is a function that starts at 0
EmptyRooms(sizes, classes) ==
  [r \in DOMAIN sizes |->
     [students |-> <<>>, classCounts |-> [c \in classes |-> 0],
      currentSize |-> 0, targetSize |-> sizes[r]]]

\* the cut with every slice one student short
CutIntoRooms_shortSlice(shuffled, sizes, index) ==
  [r \in DOMAIN sizes |->
     LET currentIndex == index + SumSeq(SubSeq(sizes, 1, r - 1))
     IN Slice(shuffled, currentIndex, currentIndex + sizes[r] - 1)]

\* lines 252-263: cut the shuffled list into rooms of the planned sizes;
\* currentIndex has advanced by the sizes of the rooms before room r
CutIntoRooms(shuffled, sizes, index) ==
  [r \in DOMAIN sizes |->
     LET currentIndex == index + SumSeq(SubSeq(sizes, 1, r - 1))
     IN Slice(shuffled, currentIndex, currentIndex + sizes[r])]

\* phase 1 for the i-th class of shuffledByClass (lines 296-324);
\* st = [rooms, byClass]
SeedClass(st, i, minPer) ==
  LET className == st.byClass[i].key
      classStudents == st.byClass[i].items
      classSize == Len(classStudents)
      numRooms == Len(st.rooms)
      maxRoomsForClass == classSize \div minPer
      allocatedRooms == Min2(maxRoomsForClass, numRooms)
  IN IF allocatedRooms = 0
       THEN [rooms |->
               [st.rooms EXCEPT
                  ![1].students = @ \o classStudents,
                  ![1].classCounts[className] = classSize,
                  ![1].currentSize = @ + classSize],
             byClass |-> st.byClass]
       ELSE [rooms |->
               [r \in DOMAIN st.rooms |->
                  IF r <= allocatedRooms
                    THEN LET studentsToAdd ==
                               Slice(classStudents, (r - 1) * minPer, r * minPer)
                         IN [st.rooms[r] EXCEPT
                               !.students = @ \o studentsToAdd,
                               !.classCounts[className] = Len(studentsToAdd),
                               !.currentSize = @ + Len(studentsToAdd)]
                    ELSE st.rooms[r]],
             byClass |-> MapSet(st.byClass, className,
                                Slice(classStudents, allocatedRooms * minPer,
                                      classSize))]

RECURSIVE SeedFrom(_, _, _)
SeedFrom(st, i, minPer) ==
  IF i > Len(st.byClass) THEN st ELSE SeedFrom(SeedClass(st, i, minPer), i + 1, minPer)

\* lines 330-336: the pool of students left in shuffledByClass
RemainingOf(byClass) == Flatten([i \in DOMAIN byClass |-> byClass[i].items])

\* lines 350-373: the room a pooled student of class cls is appended to
CapacityGap(room) == room.targetSize - room.currentSize

\* the score without the class count
Score_gapOnly(room, cls) == CapacityGap(room) * 1000

\* line 362: score = capacityGap * 1000 - classCount
Score(room, cls) == CapacityGap(room) * 1000 - room.classCounts[cls]

\* the search without the skip of the full rooms (line 359)
BestRoomIndex_noSkip(rs, cls) ==
  CHOOSE r \in DOMAIN rs :
    \A q \in DOMAIN rs :
      \/ Score(rs[r], cls) > Score(rs[q], cls)
      \/ Score(rs[r], cls) = Score(rs[q], cls) /\ r <= q

BestRoomIndex(rs, cls) ==
  LET open == {r \in DOMAIN rs : CapacityGap(rs[r]) > 0}
  IN IF open = {} THEN Len(rs)
     ELSE CHOOSE r \in open :
            \A q \in open :
              \/ Score(rs[r], cls) > Score(rs[q], cls)
              \/ Score(rs[r], cls) = Score(rs[q], cls) /\ r <= q

\* lines 375-379
AddToRoom(room, student) ==
  [room EXCEPT !.students = Append(@, student),
               !.classCounts[student.className] = @ + 1,
               !.currentSize = @ + 1]

\* a student leaving a room whatever the class keeps there
Movable_always(classCount, minPer) == classCount > 0

\* a student leaving a room whose class is just at the minimum
Movable_atMinimum(classCount, minPer) == classCount >= minPer

\* line 401: a student may leave a room when the class keeps the minimum there
Movable(classCount, minPer) == classCount > minPer

\* lines 395-407: one iteration of the walk over room.students from the
\* back, taking a movable student until diff of them are taken;
\* t = [room, moved]
TakeStep(t, i, diff, minPer) ==
  IF Len(t.moved) >= diff THEN t
  ELSE LET student == t.room.students[i]
           classCount == t.room.classCounts[student.className]
       IN IF Movable(classCount, minPer)
            THEN [room |-> [t.room EXCEPT
                              !.students = RemoveAt(@, i),
                              !.classCounts[student.className] = classCount - 1,
                              !.currentSize = @ - 1],
                  moved |-> Append(t.moved, student)]
            ELSE t

\* the iterations for the indexes hi down to lo, the upper half first; the
\* loop ends at once when diff students are taken
RECURSIVE TakeRange(_, _, _, _, _)
TakeRange(t, hi, lo, diff, minPer) ==
  IF hi < lo \/ Len(t.moved) >= diff THEN t
  ELSE IF hi = lo THEN TakeStep(t, hi, diff, minPer)
  ELSE LET mid == (lo + hi) \div 2
           upper == TakeRange(t, hi, mid + 1, diff, minPer)
       IN TakeRange(upper, mid, lo, diff, minPer)

\* lines 395-407: the walk from index i down to the first student
TakeMovable(t, i, diff, minPer) == TakeRange(t, i, 1, diff, minPer)

\* lines 414-419: the moved students appended to the next room, in order
AddAll(room, moved) ==
  LET added(c) == Cardinality({k \in DOMAIN moved : moved[k].className = c})
  IN [room EXCEPT
        !.students = @ \o moved,
        !.classCounts = [c \in DOMAIN @ |-> @[c] + added(c)],
        !.currentSize = @ + Len(moved)]

\* lines 385-421: one iteration of the phase 3 loop, for the room at index r
RebalanceRoom(rs, r, minPer) ==
  LET diff == rs[r].currentSize - rs[r].targetSize
  IN IF diff <= 0 THEN rs
     ELSE LET t == TakeMovable([room |-> rs[r], moved |-> <<>>],
                               Len(rs[r].students), diff, minPer)
          IN [rs EXCEPT ![r] = t.room, ![r + 1] = AddAll(@, t.moved)]

\* lines 384-422: the iterations of the phase 3 loop for the rooms lo..hi,
\* the lower half first
RECURSIVE RebalanceRange(_, _, _, _)
RebalanceRange(rs, lo, hi, minPer) ==
  IF lo > hi \/ lo > Len(rs) - 1 THEN rs
  ELSE IF lo = hi THEN RebalanceRoom(rs, lo, minPer)
  ELSE LET mid == (lo + hi) \div 2
           lower == RebalanceRange(rs, lo, mid, minPer)
       IN RebalanceRange(lower, mid + 1, hi, minPer)

\* lines 384-422: the phase 3 loop from the room at index r on
RebalanceFrom(rs, r, minPer) == RebalanceRange(rs, r, Len(rs) - 1, minPer)

\* lines 425-427: every room's list shuffled
RECURSIVE ShuffleRooms(_)
ShuffleRooms(rs) ==
  IF rs = <<>> THEN {<<>>}
  ELSE IF Len(rs) = 1
    THEN { <<[rs[1] EXCEPT !.students = p]>> : p \in Shuffle(rs[1].students) }
  ELSE LET mid == Len(rs) \div 2
       IN { front \o back : front \in ShuffleRooms(SubSeq(rs, 1, mid)),
                            back \in ShuffleRooms(SubSeq(rs, mid + 1, Len(rs))) }

----------------------------------------------------------------------------
\* assignSeatsSmartly and getAdjacentClasses (part_000 lines 15-171)
\* The grid is a sequence of rows, each a sequence of cols cells; the code's
\* 0-based grid[row][col] is Grid[row + 1][col + 1]. A cell is Null or <<seat>>.

Cols == 6

\* Math.ceil(maxSeats / cols) (line 60)
GridRows(maxSeats) == (maxSeats + Cols - 1) \div Cols

EmptyGrid(maxSeats) == [r \in 1..GridRows(maxSeats) |-> [c \in 1..Cols |-> Null]]

\* lines 15-49, row and col 0-based; an empty className is never added
getAdjacentClasses(g, row, col) ==
  LET directions == {<<-1, 0>>, <<1, 0>>, <<0, -1>>, <<0, 1>>}
      maxRows == Len(g)
      maxCols == Cols
      inside == {d \in directions :
                   /\ row + d[1] >= 0 /\ row + d[1] < maxRows
                   /\ col + d[2] >= 0 /\ col + d[2] < maxCols
                   /\ g[row + d[1] + 1][col + d[2] + 1] # Null}
  IN {g[row + d[1] + 1][col + d[2] + 1][1].className : d \in inside} \ {""}

\* lines 96-104: index of the first pool student whose class is not adjacent
\* (0 when there is none)
FirstFit(pool, adjacentClasses) ==
  LET fits == {i \in DOMAIN pool : pool[i].className \notin adjacentClasses}
  IN IF fits = {} THEN 0 ELSE CHOOSE i \in fits : \A j \in fits : i <= j

\* line 112: the number of pool students of a class
CountClass(pool, cls) == Cardinality({i \in DOMAIN pool : pool[i].className = cls})

\* the second pass looking at the class counts alone
MostRemaining_anyClass(pool, adjacentClasses) ==
  LET count(i) == CountClass(pool, pool[i].className)
  IN IF pool = <<>> THEN 0
     ELSE CHOOSE i \in DOMAIN pool :
            \A j \in DOMAIN pool : (j < i => count(j) < count(i))
                                   /\ (j > i => count(j) <= count(i))

\* lines 116-126: the pool student kept by the loop: not adjacent, and its
\* class count greater than that of every earlier such student and not less
\* than that of every later one (0 when there is none)
MostRemaining(pool, adjacentClasses) ==
  LET fits == {i \in DOMAIN pool : pool[i].className \notin adjacentClasses}
      count(i) == CountClass(pool, pool[i].className)
  IN IF fits = {} THEN 0
     ELSE CHOOSE i \in fits :
            \A j \in fits : (j < i => count(j) < count(i))
                            /\ (j > i => count(j) <= count(i))

\* the selection without the random fallback of lines 129-132
SelectedIndexes_noFallback(pool, adjacentClasses) ==
  LET first == FirstFit(pool, adjacentClasses)
      second == MostRemaining(pool, adjacentClasses)
  IN IF first # 0 THEN {first}
     ELSE IF pool = <<>> THEN {}
     ELSE IF second # 0 THEN {second}
     ELSE {}

\* lines 92-133: the pool indexes the cell may be given (1-based; {} when the
\* pool is empty); Math.floor(Math.random() * length) is any index
SelectedIndexes(pool, adjacentClasses) ==
  LET first == FirstFit(pool, adjacentClasses)
      second == MostRemaining(pool, adjacentClasses)
  IN IF first # 0 THEN {first}
     ELSE IF pool = <<>> THEN {}
     ELSE IF second # 0 THEN {second}
     ELSE DOMAIN pool

\* seats numbered row by row
SeatIndex_rowMajor(row, col, maxRows) == row * Cols + col

\* line 85: seatIndex = col * maxRows + row, row and col 0-based
SeatIndex(row, col, maxRows) == col * maxRows + row

\* lines 135-152: the seat written to grid[row][col]
SeatFor(student, prefixes, roomNumber, row, col, maxRows) ==
  LET seatNumber == SeatIndex(row, col, maxRows) + 1
  IN [seatNumber |-> seatNumber,
      name |-> student.name,
      examId |-> ExamId(prefixes, student.grade, roomNumber, seatNumber),
      roomNumber |-> roomNumber,
      row |-> row + 1,
      col |-> col + 1,
      className |-> student.className,
      grade |-> student.grade]

\* the k-th cell visited by the loops of lines 83-84 (k from 0)
CellRow(k) == k \div Cols
CellCol(k) == k % Cols

\* lines 143-155 for cell k and pool index idx: gp = [grid, pool]
PlaceAt(gp, k, idx, prefixes, roomNumber) ==
  LET row == CellRow(k)
      col == CellCol(k)
  IN [grid |-> [gp.grid EXCEPT ![row + 1][col + 1] =
                  <<SeatFor(gp.pool[idx], prefixes, roomNumber, row, col,
                            Len(gp.grid))>>],
      pool |-> RemoveAt(gp.pool, idx)]

\* one iteration of the loop body (lines 85-156): the possible [grid, pool]
CellOutcomes(gp, k, prefixes, roomNumber) ==
  LET adjacentClasses == getAdjacentClasses(gp.grid, CellRow(k), CellCol(k))
      choices == SelectedIndexes(gp.pool, adjacentClasses)
  IN IF choices = {} THEN {gp}
     ELSE {PlaceAt(gp, k, idx, prefixes, roomNumber) : idx \in choices}

\* lines 161-168: the grid read column by column, skipping the empty cells
SeatsOf(g) ==
  LET maxRows == Len(g)
      cellAt(j) == g[((j - 1) % maxRows) + 1][((j - 1) \div maxRows) + 1]
      cells == [j \in 1..(maxRows * Cols) |-> cellAt(j)]
      filled == SelectSeq(cells, LAMBDA c : c # Null)
  IN [j \in DOMAIN filled |-> filled[j][1]]

\* the loop body applied to cell k of every [grid, pool] of a set
FillCell(gps, k, prefixes, roomNumber) ==
  UNION { CellOutcomes(gp, k, prefixes, roomNumber) : gp \in gps }

\* the inner loop (line 84) over the six cells of a row
FillRow(gps, row, prefixes, roomNumber) ==
  LET at(S, col) == FillCell(S, row * Cols + col, prefixes, roomNumber)
  IN at(at(at(at(at(at(gps, 0), 1), 2), 3), 4), 5)

\* the outer loop (line 83) from a row on, continued from each [grid, pool]
\* of the set
RECURSIVE FillRowsFrom(_, _, _, _, _)
FillRowsFrom(gps, row, maxRows, prefixes, roomNumber) ==
  IF row >= maxRows THEN gps
  ELSE UNION { FillRowsFrom(FillRow({gp}, row, prefixes, roomNumber), row + 1,
                            maxRows, prefixes, roomNumber) : gp \in gps }

\* assignSeatsSmartly(students, gradePrefixes, roomNumber, maxSeats): the
\* possible results
assignSeatsSmartly(list, prefixes, roomNumber, maxSeats) ==
  { SeatsOf(gp.grid) :
      gp \in FillRowsFrom({[grid |-> EmptyGrid(maxSeats), pool |-> list]}, 0,
                          GridRows(maxSeats), prefixes, roomNumber) }

----------------------------------------------------------------------------
\* The POST handler (part_000 lines 441-543)

NoResponse ==
  [status |-> 0, error |-> "", seatingArrangements |-> <<>>,
   totalStudents |-> 0, totalRooms |-> 0]

\* gradeOrder.indexOf(grade) (lines 518-521)
GradeOrderIndex(g) ==
  IF g = "grade7" THEN 0 ELSE IF g = "grade8" THEN 1
  ELSE IF g = "grade9" THEN 2 ELSE -1

\* the comparator of lines 519-526: a negative result puts a first
CompareArrangements(a, b) ==
  IF GradeOrderIndex(a.grade) # GradeOrderIndex(b.grade)
    THEN GradeOrderIndex(a.grade) - GradeOrderIndex(b.grade)
    ELSE a.roomNumber - b.roomNumber

\* Array.prototype.sort is stable: the element at index i goes after the
\* elements that compare smaller and the earlier ones that compare equal
SortedPosition(list, i) ==
  1 + Cardinality({j \in DOMAIN list :
                     \/ CompareArrangements(list[j], list[i]) < 0
                     \/ /\ CompareArrangements(list[j], list[i]) = 0
                        /\ j < i})

\* lines 518-526: allSeatingArrangements.sort(comparator)
SortArrangements(list) ==
  [k \in DOMAIN list |->
     list[CHOOSE i \in DOMAIN list : SortedPosition(list, i) = k]]

\* a capacity check without the upper limit
InvalidCapacity_noUpperLimit(perRoom) == perRoom < 1

\* line 458: studentsPerRoom < 1 || studentsPerRoom > 72
InvalidCapacity(perRoom) == perRoom < 1 \/ perRoom > MaxPerRoom

\* lines 454-463: the request is rejected
Reject ==
  /\ pc = "validate"
  /\ \/ /\ Len(students) = 0
        /\ response' = [NoResponse EXCEPT !.status = 400, !.error = "students"]
     \/ /\ Len(students) # 0
        /\ InvalidCapacity(studentsPerRoom)
        /\ response' = [NoResponse EXCEPT !.status = 400, !.error = "studentsPerRoom"]
  /\ pc' = "done"
  /\ UNCHANGED <<requestVars, postVars, allSeatingArrangements, allocVars,
                 gridVars, sizerVars, pageVars>>

\* lines 454-479: the request is accepted and the students grouped by grade
Accept ==
  /\ pc = "validate"
  /\ Len(students) # 0
  /\ ~InvalidCapacity(studentsPerRoom)
  /\ studentsByGrade' = GroupByGrade(students)
  /\ gradeIndex' = 1
  /\ pc' = "distribute"
  /\ UNCHANGED <<requestVars, grade, roomStudentsList, roomIndex, outVars,
                 allocVars, gridVars, sizerVars, pageVars>>

\* lines 482-489 with lines 225-264: a grade without a minimum is shuffled
\* and cut into rooms
DistributeRandom ==
  /\ pc = "distribute"
  /\ LET g == studentsByGrade[gradeIndex].key
         gradeStudents == studentsByGrade[gradeIndex].items
         sizes == calculateRoomDistribution(Len(gradeStudents), studentsPerRoom,
                                            distributionStrategy)
     IN /\ MinPerClassPerRoom(g) = 0
        /\ grade' = g
        /\ roomSizes' = sizes
        /\ \E shuffled \in Shuffle(gradeStudents) :
             roomStudentsList' = CutIntoRooms(shuffled, sizes, 0)
  /\ roomIndex' = 0
  /\ pc' = "seat"
  /\ UNCHANGED <<requestVars, studentsByGrade, gradeIndex, outVars, rooms,
                 shuffledByClass, remainingStudents, gridVars, sizerVars, pageVars>>

\* lines 482-489 with lines 225-292: a grade with a minimum; the rooms are
\* created and every class list shuffled
DistributeStart ==
  /\ pc = "distribute"
  /\ LET g == studentsByGrade[gradeIndex].key
         gradeStudents == studentsByGrade[gradeIndex].items
         studentsByClass == GroupByClass(gradeStudents)
         sizes == calculateRoomDistribution(Len(gradeStudents), studentsPerRoom,
                                            distributionStrategy)
     IN /\ MinPerClassPerRoom(g) # 0
        /\ grade' = g
        /\ roomSizes' = sizes
        /\ rooms' = EmptyRooms(sizes, MapKeys(studentsByClass))
        /\ shuffledByClass' \in ShuffleEach(studentsByClass)
  /\ remainingStudents' = <<>>
  /\ pc' = "phase1"
  /\ UNCHANGED <<requestVars, studentsByGrade, gradeIndex, roomStudentsList,
                 roomIndex, outVars, gridVars, sizerVars, pageVars>>

\* lines 294-324: phase 1, every class seeded
SeedRooms ==
  /\ pc = "phase1"
  /\ LET st == SeedFrom([rooms |-> rooms, byClass |-> shuffledByClass], 1,
                        MinPerClassPerRoom(grade))
     IN /\ rooms' = st.rooms
        /\ shuffledByClass' = st.byClass
  /\ pc' = "collect"
  /\ UNCHANGED <<requestVars, postVars, outVars, roomSizes, remainingStudents,
                 gridVars, sizerVars, pageVars>>

\* lines 329-341: the remaining students pooled and shuffled
CollectRemaining ==
  /\ pc = "collect"
  /\ remainingStudents' \in Shuffle(RemainingOf(shuffledByClass))
  /\ pc' = "phase2"
  /\ UNCHANGED <<requestVars, postVars, outVars, roomSizes, rooms,
                 shuffledByClass, gridVars, sizerVars, pageVars>>

\* lines 344-380: one iteration of the phase 2 loop
PlaceRemaining ==
  /\ pc = "phase2"
  /\ remainingStudents # <<>>
  /\ LET student == Head(remainingStudents)
         bestRoomIndex == BestRoomIndex(rooms, student.className)
     IN rooms' = [rooms EXCEPT ![bestRoomIndex] = AddToRoom(@, student)]
  /\ remainingStudents' = Tail(remainingStudents)
  /\ UNCHANGED <<requestVars, pc, postVars, outVars, roomSizes,
                 shuffledByClass, gridVars, sizerVars, pageVars>>

\* lines 384-422: phase 3, every room but the last rebalanced in turn
Rebalance ==
  /\ pc = "phase2"
  /\ remainingStudents = <<>>
  /\ rooms' = RebalanceFrom(rooms, 1, MinPerClassPerRoom(grade))
  /\ pc' = "phase3"
  /\ UNCHANGED <<requestVars, postVars, outVars, roomSizes, shuffledByClass,
                 remainingStudents, gridVars, sizerVars, pageVars>>

\* lines 424-438: every room shuffled and the lists returned
ReturnRooms ==
  /\ pc = "phase3"
  /\ \E shuffledRooms \in ShuffleRooms(rooms) :
       /\ rooms' = shuffledRooms
       /\ roomStudentsList' = [r \in DOMAIN shuffledRooms |-> shuffledRooms[r].students]
  /\ pc' = "seat"
  /\ UNCHANGED <<requestVars, studentsByGrade, gradeIndex, grade, roomIndex,
                 outVars, roomSizes, shuffledByClass, remainingStudents, gridVars,
                 sizerVars, pageVars>>

\* lines 492-514: the rooms lo..hi of a grade, each seated; the possible
\* lists of arrangements
RECURSIVE SeatRoomsRange(_, _, _, _, _)
SeatRoomsRange(list, lo, hi, prefixes, g) ==
  IF lo > hi THEN {<<>>}
  ELSE IF lo = hi
    THEN { <<[roomNumber |-> lo, students |-> seats, grade |-> g]>> :
             seats \in assignSeatsSmartly(list[lo], prefixes, lo, Len(list[lo])) }
  ELSE LET mid == (lo + hi) \div 2
       IN { front \o back :
              front \in SeatRoomsRange(list, lo, mid, prefixes, g),
              back \in SeatRoomsRange(list, mid + 1, hi, prefixes, g) }

\* lines 492-514: the rooms of a grade from index r on
SeatRoomsFrom(list, r, prefixes, g) == SeatRoomsRange(list, r, Len(list), prefixes, g)

\* lines 492-514: every room of the grade seated and appended to the result
SeatRooms ==
  /\ pc = "seat"
  /\ \E seated \in SeatRoomsFrom(roomStudentsList, 1, gradePrefixes, grade) :
       allSeatingArrangements' = allSeatingArrangements \o seated
  /\ roomIndex' = Len(roomStudentsList)
  /\ pc' = "next"
  /\ UNCHANGED <<requestVars, studentsByGrade, gradeIndex, grade,
                 roomStudentsList, response, allocVars, gridVars, sizerVars, pageVars>>

\* line 482: the loop moves to the next grade
NextGrade ==
  /\ pc = "next"
  /\ gradeIndex < Len(studentsByGrade)
  /\ gradeIndex' = gradeIndex + 1
  /\ pc' = "distribute"
  /\ UNCHANGED <<requestVars, studentsByGrade, grade, roomStudentsList,
                 roomIndex, outVars, allocVars, gridVars, sizerVars, pageVars>>

\* lines 517-533: the arrangements sorted and returned
Respond ==
  /\ pc = "next"
  /\ ~(gradeIndex < Len(studentsByGrade))
  /\ LET sorted == SortArrangements(allSeatingArrangements)
     IN /\ allSeatingArrangements' = sorted
        /\ response' = [status |-> 200, error |-> "",
                        seatingArrangements |-> sorted,
                        totalStudents |-> Len(students),
                        totalRooms |-> Len(sorted)]
  /\ pc' = "done"
  /\ UNCHANGED <<requestVars, postVars, allocVars, gridVars, sizerVars, pageVars>>

----------------------------------------------------------------------------
\* The page (page.tsx): the state of Home before anything was uploaded

\* the digits of the initial value of the prefix field (line 35)
InitialPrefix == <<0, 7, 0, 1, 1>>

\* localStorage without any of the keys the page writes
EmptyStorage == [students |-> Null, seatingArrangements |-> Null, prefix |-> Null]

\* lines 31-36 and 39-58: the useState initial values with nothing saved
PageClosed ==
  /\ pageStudents = <<>>
  /\ seatingArrangements = <<>>
  /\ localStorage = EmptyStorage
  /\ prefix = InitialPrefix
  /\ loading = FALSE
  /\ error = ""
  /\ bodyPrefix = <<>>
  /\ uploadResponse = Null
  /\ workbook = <<>>

----------------------------------------------------------------------------
\* The requests drawn by Init

Grades == {"grade7", "grade8", "grade9", ""}

Student(g, c) == [name |-> "s", className |-> c, grade |-> g]

\* a block is n students of one grade and class
BlockStudents(g, c, n) == [i \in 1..n |-> Student(g, c)]

\* one class of one grade
OneBlockRosters == { BlockStudents(g, "c1", n) : g \in Grades, n \in 1..MaxStudents }

\* two blocks: two classes of one grade, or one class in each of two grades
TwoBlockRosters ==
  { BlockStudents(g1, "c1", n1) \o BlockStudents(g2, IF g1 = g2 THEN "c2" ELSE "c1", n2) :
      <<g1, g2, n1, n2>> \in
        { t \in Grades \X Grades \X (1..MaxStudents) \X (1..MaxStudents) :
            t[3] + t[4] <= MaxStudents } }

\* one large class, for the rooms and seats of three digits
LargeRosters == { BlockStudents(g, "c1", LargeRoster) : g \in {"grade7", "grade8"} }

Rosters == {<<>>} \cup OneBlockRosters \cup TwoBlockRosters \cup LargeRosters

PerRoomChoices == {0, 3, 4, MaxPerRoom, MaxPerRoom + 1}

\* a request body (lines 443-452) before the handler has looked at it
StartWith(rosters, perRoomChoices, prefixChoices) ==
  /\ students \in rosters
  /\ studentsPerRoom \in perRoomChoices
  /\ distributionStrategy \in Strategies
  /\ gradePrefixes \in prefixChoices
  /\ pc = "validate"
  /\ studentsByGrade = <<>>
  /\ gradeIndex = 0
  /\ grade = ""
  /\ roomStudentsList = <<>>
  /\ roomIndex = 0
  /\ allSeatingArrangements = <<>>
  /\ response = NoResponse
  /\ roomSizes = <<>>
  /\ rooms = <<>>
  /\ shuffledByClass = <<>>
  /\ remainingStudents = <<>>
  /\ grid = <<>>
  /\ studentPool = <<>>
  /\ cell = 0
  /\ sizerInput = <<>>
  /\ sizerOutput = <<>>
  /\ PageClosed

\* a request body that leaves gradePrefixes to its default
Start(rosters, perRoomChoices) ==
  StartWith(rosters, perRoomChoices, {DefaultGradePrefixes})

Init == Start(Rosters, PerRoomChoices)

Next ==
  \/ Reject
  \/ Accept
  \/ DistributeRandom
  \/ DistributeStart
  \/ SeedRooms
  \/ CollectRemaining
  \/ PlaceRemaining
  \/ Rebalance
  \/ ReturnRooms
  \/ SeatRooms
  \/ NextGrade
  \/ Respond

Spec == Init /\ [][Next]_vars

----------------------------------------------------------------------------
\* Requests of one grade with a minimum and more than a hundred rooms

ScaleClassNames ==
  << "k01", "k02", "k03", "k04", "k05", "k06", "k07", "k08", "k09", "k10",
     "k11", "k12", "k13", "k14", "k15", "k16", "k17", "k18", "k19", "k20",
     "k21", "k22", "k23", "k24", "k25", "k26" >>

\* ScaleClasses classes of ScaleClassSize students, then one class of
\* ScaleLongClass students
ScaleRoster ==
  Flatten([c \in 1..(ScaleClasses + 1) |->
             BlockStudents("grade8", ScaleClassNames[c],
                           IF c <= ScaleClasses THEN ScaleClassSize
                                                ELSE ScaleLongClass)])

ScaleRosters == {<<>>, ScaleRoster} \cup OneBlockRosters \cup TwoBlockRosters

InitScale == Start(ScaleRosters, {ScalePerRoom})

SpecScale == InitScale /\ [][Next]_vars

----------------------------------------------------------------------------
\* Requests of two grades, with grades outside gradeOrder: "" (grouped under
\* "unknown") and "other", a stand-in for any other grade string

OrderGrades == {"grade7", "grade8", "", "other"}

OrderRosters ==
  {<<>>} \cup
  { BlockStudents(g1, "c1", n1) \o BlockStudents(g2, "c1", n2) :
      <<g1, g2, n1, n2>> \in
        { t \in OrderGrades \X OrderGrades \X (1..MaxOrderBlock) \X (1..MaxOrderBlock) :
            t[1] # t[2] } }

OrderPerRoomChoices == {0, 1, 2, MaxPerRoom, MaxPerRoom + 1}

InitOrder == Start(OrderRosters, OrderPerRoomChoices)

SpecOrder == InitOrder /\ [][Next]_vars

\* the handler runs to its end: every statement that can run does run
SpecOrderFair == SpecOrder /\ WF_vars(Next)

----------------------------------------------------------------------------
\* Requests that configure gradePrefixes: the default, the default with a
\* prefix for the "unknown" grade key, and a prefix for "grade7" alone

UnknownPrefix == <<0, 5, 0, 1, 1>>

PrefixChoices ==
  { DefaultGradePrefixes,
    [g \in {"grade7", "grade8", "grade9", "unknown"} |->
       IF g = "unknown" THEN UnknownPrefix ELSE DefaultGradePrefixes[g]],
    [g \in {"grade7"} |-> DefaultGradePrefixes[g]] }

InitPrefix == StartWith(OrderRosters, OrderPerRoomChoices, PrefixChoices)

SpecPrefix == InitPrefix /\ [][Next]_vars

----------------------------------------------------------------------------
\* Direct calls of calculateRoomDistribution(totalStudents, studentsPerRoom,
\* strategy)

Idle ==
  /\ studentsPerRoom = 0
  /\ distributionStrategy = "last"
  /\ gradePrefixes = DefaultGradePrefixes
  /\ studentsByGrade = <<>>
  /\ gradeIndex = 0
  /\ grade = ""
  /\ roomStudentsList = <<>>
  /\ roomIndex = 0
  /\ allSeatingArrangements = <<>>
  /\ response = NoResponse
  /\ roomSizes = <<>>
  /\ rooms = <<>>
  /\ shuffledByClass = <<>>
  /\ remainingStudents = <<>>

InitSizer ==
  /\ Idle
  /\ students = <<>>
  /\ pc = "sizer"
  /\ grid = <<>>
  /\ studentPool = <<>>
  /\ cell = 0
  /\ sizerInput \in [totalStudents : 1..MaxPlanTotal,
                     studentsPerRoom : 1..MaxPlanPerRoom,
                     strategy : Strategies]
  /\ sizerOutput = <<>>
  /\ PageClosed

PlanRooms ==
  /\ pc = "sizer"
  /\ sizerOutput' = calculateRoomDistribution(sizerInput.totalStudents,
                                              sizerInput.studentsPerRoom,
                                              sizerInput.strategy)
  /\ pc' = "planned"
  /\ UNCHANGED <<requestVars, postVars, outVars, allocVars, gridVars, sizerInput,
                 pageVars>>

NextSizer == PlanRooms

SpecSizer == InitSizer /\ [][NextSizer]_vars

----------------------------------------------------------------------------
\* Direct calls of assignSeatsSmartly(list, gradePrefixes, 1, list.length),
\* one cell at a time

GridClassNames == <<"", "c1", "c2", "c3">>

\* class lists up to renaming: c2 only after c1, c3 only after c2
ClassLists ==
  UNION { { l \in [1..n -> 1..Len(GridClassNames)] :
              \A i \in 1..n : l[i] > 2 => \E j \in 1..(i - 1) : l[j] = l[i] - 1 }
          : n \in 0..MaxGridList }

\* longer lists, of one class
UniformLists ==
  { BlockStudents("grade7", "c1", n) : n \in (MaxGridList + 1)..MaxUniformList }

GridLists ==
  { [i \in DOMAIN l |-> Student("grade7", GridClassNames[l[i]])] : l \in ClassLists }
    \cup UniformLists

InitGrid ==
  /\ Idle
  /\ pc = "place"
  /\ students \in GridLists
  /\ studentPool = students
  /\ grid = EmptyGrid(Len(studentPool))
  /\ cell = 0
  /\ sizerInput = <<>>
  /\ sizerOutput = <<>>
  /\ PageClosed

\* lines 83-158: one iteration of the loops, for cell number `cell`
PlaceSeat ==
  /\ pc = "place"
  /\ cell < Len(grid) * Cols
  /\ \E next \in CellOutcomes([grid |-> grid, pool |-> studentPool], cell,
                              gradePrefixes, 1) :
       /\ grid' = next.grid
       /\ studentPool' = next.pool
  /\ cell' = cell + 1
  /\ UNCHANGED <<requestVars, pc, postVars, outVars, allocVars, sizerVars, pageVars>>

\* lines 160-170: the seats returned
CollectSeats ==
  /\ pc = "place"
  /\ ~(cell < Len(grid) * Cols)
  /\ allSeatingArrangements' =
       <<[roomNumber |-> 1, students |-> SeatsOf(grid), grade |-> "grade7"]>>
  /\ pc' = "seated"
  /\ UNCHANGED <<requestVars, postVars, response, allocVars, gridVars, sizerVars, pageVars>>

NextGrid == PlaceSeat \/ CollectSeats

SpecGrid == InitGrid /\ [][NextGrid]_vars

----------------------------------------------------------------------------
\* Properties of calculateRoomDistribution (checked under SpecSizer)

\* C9: for every totalStudents >= 1, studentsPerRoom >= 1 and strategy, the
\* room sizes returned by calculateRoomDistribution add up to totalStudents.
RoomSizesSumToTotal ==
  pc = "planned" => SumSeq(sizerOutput) = sizerInput.totalStudents

\* a call that took the remainder branch of each strategy was planned
RoomSizesSumWitness ==
  /\ pc = "planned"
  /\ sizerInput.strategy = "average"
  /\ sizerInput.totalStudents % sizerInput.studentsPerRoom # 0
  /\ Len(sizerOutput) >= 3

\* C10: with strategy "last", floor(total / perRoom) rooms are planned, all of
\* size perRoom except the last, of size perRoom + (total mod perRoom); when
\* total < perRoom a single room of size total is planned.
PackLastPlan ==
  (pc = "planned" /\ sizerInput.strategy = "last") =>
    LET total == sizerInput.totalStudents
        perRoom == sizerInput.studentsPerRoom
        full == total \div perRoom
    IN IF total < perRoom
         THEN sizerOutput = <<total>>
         ELSE /\ Len(sizerOutput) = full
              /\ \A i \in 1..(full - 1) : sizerOutput[i] = perRoom
              /\ sizerOutput[full] = perRoom + (total % perRoom)

\* a "last" plan with several full rooms and a remainder
PackLastWitness ==
  /\ pc = "planned"
  /\ sizerInput.strategy = "last"
  /\ sizerInput.totalStudents \div sizerInput.studentsPerRoom >= 2
  /\ sizerInput.totalStudents % sizerInput.studentsPerRoom # 0

\* the sizes of a plan are as even as possible, the larger rooms first
EvenFrontFirst(sizes) ==
  /\ \A i, j \in DOMAIN sizes : sizes[i] - sizes[j] <= 1
  /\ \A i, j \in DOMAIN sizes : i < j => sizes[i] >= sizes[j]

\* C11 as stated: with strategy "average", for every total and perRoom, the
\* plan has exactly floor(total / perRoom) + 1 rooms, any two sizes differ by
\* at most 1 and the sizes are non-increasing.
AveragePlan ==
  (pc = "planned" /\ sizerInput.strategy = "average") =>
    /\ Len(sizerOutput) = (sizerInput.totalStudents \div sizerInput.studentsPerRoom) + 1
    /\ EvenFrontFirst(sizerOutput)

\* C11 amended: with strategy "average", when perRoom does not divide total
\* the plan has floor(total / perRoom) + 1 rooms, sizes differing by at most 1
\* and non-increasing; when perRoom divides total the plan has
\* total / perRoom rooms, each of size perRoom.
AveragePlanAmended ==
  (pc = "planned" /\ sizerInput.strategy = "average") =>
    LET total == sizerInput.totalStudents
        perRoom == sizerInput.studentsPerRoom
    IN IF total % perRoom = 0
         THEN sizerOutput = [i \in 1..(total \div perRoom) |-> perRoom]
         ELSE /\ Len(sizerOutput) = (total \div perRoom) + 1
              /\ EvenFrontFirst(sizerOutput)

\* an "average" plan of several rooms, some of them with an extra student
AveragePlanWitness ==
  /\ pc = "planned"
  /\ sizerInput.strategy = "average"
  /\ sizerInput.totalStudents % sizerInput.studentsPerRoom # 0
  /\ Len(sizerOutput) >= 3
  /\ sizerOutput[1] > sizerOutput[Len(sizerOutput)]

\* the plan of the call (total, perRoom, strategy), when that call was made
PlanIs(total, perRoom, strategy, sizes) ==
  (/\ pc = "planned"
   /\ sizerInput.totalStudents = total
   /\ sizerInput.studentsPerRoom = perRoom
   /\ sizerInput.strategy = strategy) => sizerOutput = sizes

\* C12 as stated: "last" with 100 and 36 plans [36, 36, 28]; with 90 and 36,
\* "last" plans [36, 54], "separate" [36, 36, 18] and "average" [45, 45].
RoomSizingExamples ==
  /\ PlanIs(100, 36, "last", <<36, 36, 28>>)
  /\ PlanIs(90, 36, "last", <<36, 54>>)
  /\ PlanIs(90, 36, "separate", <<36, 36, 18>>)
  /\ PlanIs(90, 36, "average", <<45, 45>>)

\* C12 amended: "last" with 100 and 36 plans [36, 64]; with 90 and 36,
\* "last" plans [36, 54], "separate" [36, 36, 18] and "average" [30, 30, 30].
RoomSizingExamplesAmended ==
  /\ PlanIs(100, 36, "last", <<36, 64>>)
  /\ PlanIs(90, 36, "last", <<36, 54>>)
  /\ PlanIs(90, 36, "separate", <<36, 36, 18>>)
  /\ PlanIs(90, 36, "average", <<30, 30, 30>>)

\* the call with 90 students, 36 per room and strategy "average" was made
RoomSizingExamplesWitness ==
  /\ pc = "planned"
  /\ sizerInput = [totalStudents |-> 90, studentsPerRoom |-> 36,
                   strategy |-> "average"]

----------------------------------------------------------------------------
\* Properties of the allocation (checked under Spec)

\* the student a seat was given to
SeatStudent(seat) ==
  [name |-> seat.name, className |-> seat.className, grade |-> seat.grade]

\* the students placed by a list of arrangements
PlacedStudents(arrangements) ==
  Flatten([a \in DOMAIN arrangements |->
             [j \in DOMAIN arrangements[a].students |->
                SeatStudent(arrangements[a].students[j])]])

\* the number of students of class cls in a list
InClass(list, cls) == Cardinality({i \in DOMAIN list : list[i].className = cls})

\* the grade being distributed has a minimum
QuotaRoomsStarted == MinPerClassPerRoom(grade) > 0

\* the grade being distributed has a minimum and its rooms have been returned
QuotaRoomsReturned == pc = "seat" /\ MinPerClassPerRoom(grade) > 0

GradeStudents == studentsByGrade[gradeIndex].items

\* the grade being distributed has no minimum and its rooms have been returned
RandomRoomsReturned == pc = "seat" /\ MinPerClassPerRoom(grade) = 0

\* C16: for a grade without a minimum the allocator returns one list per
\* planned room, in plan order, each as long as the room's target size.
QuotaDisabledSizes ==
  RandomRoomsReturned =>
    LET sizes == calculateRoomDistribution(Len(GradeStudents), studentsPerRoom,
                                           distributionStrategy)
    IN /\ Len(roomStudentsList) = Len(sizes)
       /\ \A r \in DOMAIN sizes : Len(roomStudentsList[r]) = sizes[r]

\* a grade without a minimum was cut into rooms of different sizes
QuotaDisabledSizesWitness ==
  /\ RandomRoomsReturned
  /\ Len(roomStudentsList) >= 2
  /\ Len(roomStudentsList[1]) # Len(roomStudentsList[Len(roomStudentsList)])

\* C19: in a grade with a minimum, a class with fewer than min members has
\* all of its members in room 1 of the final allocation, each exactly once,
\* and none in any other room.
SmallClassesInRoomOne ==
  QuotaRoomsReturned =>
    \A cls \in MapKeys(GroupByClass(GradeStudents)) :
      InClass(GradeStudents, cls) < MinPerClassPerRoom(grade) =>
        /\ InClass(roomStudentsList[1], cls) = InClass(GradeStudents, cls)
        /\ \A r \in DOMAIN roomStudentsList :
             r # 1 => InClass(roomStudentsList[r], cls) = 0

\* a pooled student is about to be placed by phase 2
PlacingRemaining == pc = "phase2" /\ remainingStudents # <<>>

\* the gap of room r and its members of class cls, before the step
GapOf(r) == rooms[r].targetSize - rooms[r].currentSize

MembersOf(r, cls) == InClass(rooms[r].students, cls)

\* C20: each pooled student is appended to a room whose gap is positive and
\* the largest of all rooms, and among the rooms of that gap to one with the
\* fewest members of the student's class; to the last room only when no room
\* has a positive gap.
OverflowRule ==
  [][PlacingRemaining =>
       LET student == Head(remainingStudents)
           cls == student.className
           r == CHOOSE q \in DOMAIN rooms : rooms'[q] # rooms[q]
       IN /\ \A q \in DOMAIN rooms : q # r => rooms'[q] = rooms[q]
          /\ rooms'[r].students = Append(rooms[r].students, student)
          /\ IF \E q \in DOMAIN rooms : GapOf(q) > 0
               THEN /\ GapOf(r) > 0
                    /\ \A q \in DOMAIN rooms : GapOf(q) <= GapOf(r)
                    /\ \A q \in DOMAIN rooms :
                         GapOf(q) = GapOf(r) => MembersOf(r, cls) <= MembersOf(q, cls)
               ELSE r = Len(rooms)]_vars

\* phase 2 is about to place a student where two rooms share the largest
\* gap and the later one holds fewer members of the student's class, the
\* earlier one holding a member that phase 2 placed there
OverflowRuleWitness ==
  /\ PlacingRemaining
  /\ QuotaRoomsStarted
  /\ LET cls == Head(remainingStudents).className
     IN \E q, r \in DOMAIN rooms :
          /\ 1 < q /\ q < r
          /\ GapOf(q) > 0 /\ GapOf(q) = GapOf(r)
          /\ \A x \in DOMAIN rooms : GapOf(x) <= GapOf(q)
          /\ MembersOf(r, cls) < MembersOf(q, cls)
          /\ InClass(GradeStudents, cls) < MinPerClassPerRoom(grade)

\* C1: for every accepted request the multiset of students placed in the
\* returned arrangements equals the multiset of the roster.
Conservation ==
  (pc = "done" /\ response.status = 200) =>
    BagOfSeq(PlacedStudents(response.seatingArrangements)) = BagOfSeq(students)

\* C2: in a grade with a minimum, every room and every class present in the
\* room: the class has at least the minimum there, or the class is smaller
\* than the minimum and this room is the only one holding members of it.
QuotaInvariant ==
  QuotaRoomsReturned =>
    \A r \in DOMAIN roomStudentsList :
      \A cls \in {roomStudentsList[r][i].className : i \in DOMAIN roomStudentsList[r]} :
        \/ InClass(roomStudentsList[r], cls) >= MinPerClassPerRoom(grade)
        \/ /\ InClass(GradeStudents, cls) < MinPerClassPerRoom(grade)
           /\ \A q \in DOMAIN roomStudentsList :
                q # r => InClass(roomStudentsList[q], cls) = 0

\* C3: in a grade with a minimum, every class with at least min members has
\* at least min members in each of the first
\* min(floor(size / min), numRooms) rooms of the final allocation.
QuotaSatisfaction ==
  QuotaRoomsReturned =>
    \A cls \in MapKeys(GroupByClass(GradeStudents)) :
      LET size == InClass(GradeStudents, cls)
          minPer == MinPerClassPerRoom(grade)
      IN size >= minPer =>
           \A r \in 1..Min2(size \div minPer, Len(roomSizes)) :
             InClass(roomStudentsList[r], cls) >= minPer

\* a class large enough for the minimum in two rooms was allocated, beside
\* rooms that are over their target size
QuotaSatisfactionWitness ==
  /\ QuotaRoomsReturned
  /\ Len(roomSizes) >= 2
  /\ \E cls \in MapKeys(GroupByClass(GradeStudents)) :
       /\ InClass(GradeStudents, cls) >= 2 * MinPerClassPerRoom(grade)
       /\ InClass(roomStudentsList[2], cls) >= MinPerClassPerRoom(grade)
  /\ \E r \in DOMAIN rooms : rooms[r].currentSize > rooms[r].targetSize

\* C7: every exam id is the prefix followed by exactly four digits.
IdentityShape ==
  \A a \in DOMAIN allSeatingArrangements :
    \A j \in DOMAIN allSeatingArrangements[a].students :
      LET seat == allSeatingArrangements[a].students[j]
      IN Len(seat.examId) = Len(PrefixFor(gradePrefixes, seat.grade)) + 4

\* C4: within one grade of one run, no two seats carry the same exam id.
UniqueExamIds ==
  \A a, b \in DOMAIN allSeatingArrangements :
    \A i \in DOMAIN allSeatingArrangements[a].students :
      \A j \in DOMAIN allSeatingArrangements[b].students :
        LET x == allSeatingArrangements[a].students[i]
            y == allSeatingArrangements[b].students[j]
        IN (x.grade = y.grade /\ <<a, i>> # <<b, j>>) => x.examId # y.examId

\* the request was accepted and answered
Answered == pc = "done" /\ response.status = 200

\* the handler returned, and its answer is the one the request calls for: an
\* error with nothing sized, allocated or returned when the roster is empty
\* or the capacity outside 1..72, a success otherwise
ValidAnswer ==
  pc = "done" =>
    IF Len(students) = 0 \/ studentsPerRoom < 1 \/ studentsPerRoom > 72
      THEN /\ response.status = 400
           /\ response.seatingArrangements = <<>>
           /\ allSeatingArrangements = <<>>
           /\ studentsByGrade = <<>>
           /\ roomSizes = <<>>
           /\ rooms = <<>>
      ELSE /\ response.status = 200
           /\ response.seatingArrangements # <<>>

\* C14: the run returns an error, with no arrangements and before any sizing
\* or allocation, if and only if the roster is empty or the capacity is below
\* 1 or above 72; for every other request it ends with a success.
Validation == [](ValidAnswer) /\ <>(pc = "done")

\* a request with students and a capacity above 72 was rejected
ValidationWitness ==
  /\ pc = "done"
  /\ Len(students) > 0
  /\ studentsPerRoom > 72
  /\ response.status = 400

\* C17: the prefix of a seat's exam id is the prefix configured for the grade
\* key under which the student was grouped (an empty grade is grouped under
\* "unknown"), and the default prefix exactly when that key has none.
PrefixSelection ==
  \A a \in DOMAIN allSeatingArrangements :
    \A j \in DOMAIN allSeatingArrangements[a].students :
      LET key == allSeatingArrangements[a].grade
          seat == allSeatingArrangements[a].students[j]
          configured == IF key \in DOMAIN gradePrefixes THEN gradePrefixes[key]
                                                        ELSE DefaultPrefix
      IN seat.examId = configured \o PadStart(Digits(seat.roomNumber), PadWidth)
                                  \o PadStart(Digits(seat.seatNumber), PadWidth)

\* C13: the returned arrangements of one grade are contiguous and in room
\* order 1..N; the grades of gradeOrder come in that order and the other
\* grades in the order in which they were first met in the roster.
OutputOrdering ==
  Answered =>
    LET arr == response.seatingArrangements
        met(g) == CHOOSE n \in DOMAIN studentsByGrade : studentsByGrade[n].key = g
    IN /\ arr[1].roomNumber = 1
       /\ \A i \in 1..(Len(arr) - 1) :
            IF arr[i + 1].grade = arr[i].grade
              THEN arr[i + 1].roomNumber = arr[i].roomNumber + 1
              ELSE /\ arr[i + 1].roomNumber = 1
                   /\ \A k \in 1..i : arr[k].grade # arr[i + 1].grade
       /\ \A i, j \in DOMAIN arr :
            i < j =>
              LET a == GradeOrderIndex(arr[i].grade)
                  b == GradeOrderIndex(arr[j].grade)
              IN /\ (a >= 0 /\ b >= 0) => a <= b
                 /\ (a < 0 /\ b < 0) => met(arr[i].grade) <= met(arr[j].grade)

----------------------------------------------------------------------------
\* Properties of assignSeatsSmartly (checked under SpecGrid)

Seats == allSeatingArrangements[1].students

\* C15: for every list of n >= 0 students passed with maxSeats = n, the result
\* has exactly n seats and every student of the list has exactly one seat.
GridCompleteness ==
  pc = "seated" =>
    /\ Len(Seats) = Len(students)
    /\ BagOfSeq([j \in DOMAIN Seats |-> SeatStudent(Seats[j])]) = BagOfSeq(students)

\* a list was seated whose last student could only be seated by the random
\* fallback, beside a student of the same class
GridCompletenessWitness ==
  /\ pc = "seated"
  /\ Len(students) >= 3
  /\ \E i, j \in DOMAIN Seats :
       /\ Seats[i].row = Seats[j].row
       /\ Seats[i].col + 1 = Seats[j].col
       /\ Seats[i].className = Seats[j].className
       /\ Seats[i].className # ""
  /\ \E i, j \in DOMAIN students : students[i].className # students[j].className

SeatNumbers == {Seats[j].seatNumber : j \in DOMAIN Seats}

\* C5: the seat numbers of a room are pairwise distinct and form a
\* contiguous range starting at 1, with no gaps.
SeatNumbersContiguous ==
  pc = "seated" =>
    /\ \A i, j \in DOMAIN Seats : i # j => Seats[i].seatNumber # Seats[j].seatNumber
    /\ SeatNumbers = 1..Cardinality(SeatNumbers)

\* C6: every seat has 1 <= col <= 6, 1 <= row <= gridRows and
\* seatNumber = (col - 1) * gridRows + row; no two seats of a room share a
\* cell or a seat number; a room whose size is a multiple of 6 has exactly
\* the seat numbers 1..size.
SeatCoordinates ==
  pc = "seated" =>
    LET gridRows == GridRows(Len(Seats))
    IN /\ \A j \in DOMAIN Seats :
            /\ Seats[j].col >= 1 /\ Seats[j].col <= 6
            /\ Seats[j].row >= 1 /\ Seats[j].row <= gridRows
            /\ Seats[j].seatNumber = (Seats[j].col - 1) * gridRows + Seats[j].row
       /\ \A i, j \in DOMAIN Seats :
            i # j => /\ <<Seats[i].row, Seats[i].col>> # <<Seats[j].row, Seats[j].col>>
                     /\ Seats[i].seatNumber # Seats[j].seatNumber
       /\ Len(Seats) % 6 = 0 => SeatNumbers = 1..Len(Seats)

\* a room of 36 was seated on 6 rows
SeatCoordinatesWitness ==
  /\ pc = "seated"
  /\ Len(Seats) = 36
  /\ \E j \in DOMAIN Seats : Seats[j].row = 6 /\ Seats[j].col = 6

\* C8: in a room where no class has more than 6 * gridRows / numGroups
\* members, no two horizontally or vertically adjacent seats share a class.
NoAdjacentSameClass ==
  pc = "seated" =>
    LET classes == {Seats[j].className : j \in DOMAIN Seats}
        gridRows == GridRows(Len(Seats))
    IN (\A cls \in classes :
          InClass(Seats, cls) * Cardinality(classes) <= 6 * gridRows)
       => \A i, j \in DOMAIN Seats :
            (\/ /\ Seats[i].row = Seats[j].row
                /\ Seats[i].col + 1 = Seats[j].col
             \/ /\ Seats[i].col = Seats[j].col
                /\ Seats[i].row + 1 = Seats[j].row)
            => Seats[i].className # Seats[j].className

----------------------------------------------------------------------------
\* Properties of phase 3 (part_000 lines 382-422)

\* the rooms after the iterations of the phase 3 loop for the rooms 1..r
AfterRoom(r) == RebalanceRange(rooms, 1, r, MinPerClassPerRoom(grade))

\* the students that the iteration for room r appended to room r + 1
MovedFrom(r) ==
  SubSeq(AfterRoom(r)[r + 1].students,
         Len(AfterRoom(r - 1)[r + 1].students) + 1,
         Len(AfterRoom(r)[r + 1].students))

\* the iteration for room r: what it may take and where it puts it
RebalanceStepSafe(r) ==
  LET minPer == MinPerClassPerRoom(grade)
      before == AfterRoom(r - 1)
      after == AfterRoom(r)
      moved == MovedFrom(r)
      classes == {before[r].students[i].className : i \in DOMAIN before[r].students}
  IN /\ \A q \in DOMAIN rooms : q \notin {r, r + 1} => after[q] = before[q]
     /\ after[r + 1].students = before[r + 1].students \o moved
     /\ BagOfSeq(after[r].students \o moved) = BagOfSeq(before[r].students)
     /\ moved # <<>> =>
          /\ Len(before[r].students) > before[r].targetSize
          /\ Len(after[r].students) >= after[r].targetSize
     /\ \A cls \in classes :
          InClass(moved, cls) > 0 => InClass(after[r].students, cls) >= minPer
     /\ Len(after[r].students) > after[r].targetSize =>
          \A cls \in classes : InClass(after[r].students, cls) <= minPer

\* C21: in phase 3 a student leaves a room only when the room is above its
\* target size and the student's class keeps at least min members there; the
\* students taken from a room are appended to the next room; a room other
\* than the last stays above its target only when none of its classes has
\* more than min members in it.
RebalancingSafety ==
  [][(pc = "phase2" /\ pc' = "phase3") =>
       /\ rooms' = AfterRoom(Len(rooms) - 1)
       /\ \A r \in 1..(Len(rooms) - 1) : RebalanceStepSafe(r)]_vars

\* phase 3 has run over three rooms or more and left a room before the last
\* above its target, holding two classes, none of them above the minimum
RebalancingSafetyWitness ==
  /\ pc = "phase3"
  /\ QuotaRoomsStarted
  /\ Len(rooms) >= 3
  /\ \E r \in 1..(Len(rooms) - 1) :
       /\ Len(rooms[r].students) > rooms[r].targetSize
       /\ \E i, j \in DOMAIN rooms[r].students :
            rooms[r].students[i].className # rooms[r].students[j].className
       /\ \A i \in DOMAIN rooms[r].students :
            InClass(rooms[r].students, rooms[r].students[i].className)
              <= MinPerClassPerRoom(grade)

----------------------------------------------------------------------------
\* Properties of the selection for a cell (part_000 lines 88-133)

\* an iteration of the loops of lines 83-84 that has a pool to choose from
FillingCell == pc = "place" /\ cell < Len(grid) * Cols /\ studentPool # <<>>

\* the labels, the empty one included, of the occupied cells above, below,
\* left and right of the cell being filled
NeighbourLabels ==
  LET row == CellRow(cell)
      col == CellCol(cell)
      around == {<<row - 1, col>>, <<row + 1, col>>, <<row, col - 1>>, <<row, col + 1>>}
      occupied == {n \in around :
                     /\ n[1] >= 0 /\ n[1] < Len(grid)
                     /\ n[2] >= 0 /\ n[2] < Cols
                     /\ grid[n[1] + 1][n[2] + 1] # Null}
  IN {grid[n[1] + 1][n[2] + 1][1].className : n \in occupied}

\* the pool indexes whose label is none of the neighbours' labels
OutsideNeighbours ==
  {i \in DOMAIN studentPool : studentPool[i].className \notin NeighbourLabels}

\* C22: the student given to a cell is the earliest one of the pool whose
\* label is not the label, empty or not, of an occupied cell above, below,
\* left or right; a student with the label of such a neighbour is placed
\* only when every label of the pool is a neighbour's label.
FirstFitSelection ==
  [][FillingCell =>
       LET row == CellRow(cell)
           col == CellCol(cell)
           placed == grid'[row + 1][col + 1][1]
       IN /\ grid'[row + 1][col + 1] # Null
          /\ placed.className \in NeighbourLabels => OutsideNeighbours = {}
          /\ OutsideNeighbours # {} =>
               LET first == CHOOSE i \in OutsideNeighbours :
                              \A j \in OutsideNeighbours : i <= j
               IN /\ studentPool' = RemoveAt(studentPool, first)
                  /\ placed.className = studentPool[first].className]_vars

----------------------------------------------------------------------------
\* The first distributeStudentsWithMinPerClass of generate-seating/route.ts
\* (lines 218-437), called directly; rooms[r] = [students, classCounts] stands
\* for roomStudents[r - 1] and classCountsByRoom[r - 1]

\* lines 274-275
ActualRooms(classSize, minPer, numRooms) == Min2(classSize \div minPer, numRooms)

\* lines 270-306: the students of one class that step 1 puts in room r
ClassShare(shuffled, r, minPer, numRooms) ==
  LET classSize == Len(shuffled)
      actualRooms == ActualRooms(classSize, minPer, numRooms)
      seeded == actualRooms * minPer
      roundRobin == {studentIndex \in seeded..(classSize - 1) :
                       (studentIndex - seeded) % actualRooms = r - 1}
  IN IF actualRooms = 0
       THEN IF r = 1 THEN shuffled ELSE <<>>
     ELSE IF r > actualRooms THEN <<>>
     ELSE Slice(shuffled, (r - 1) * minPer, r * minPer)
            \o [k \in 1..Cardinality(roundRobin) |->
                  shuffled[seeded + (r - 1) + (k - 1) * actualRooms + 1]]

\* lines 309-328, before the shuffle of line 330: room r joined class by
\* class, with the count of each class
JoinedRoom(byClass, r, minPer, numRooms) ==
  LET shares == [n \in DOMAIN byClass |->
                   ClassShare(byClass[n].items, r, minPer, numRooms)]
  IN [students |-> Flatten(shares),
      classCounts |-> [c \in MapKeys(byClass) |->
                         LET n == CHOOSE n \in DOMAIN byClass : byClass[n].key = c
                         IN Len(shares[n])]]

\* line 356: the class keeps the minimum in the room without this student
CanLeave(currentCount, minPer) == currentCount > minPer

\* lines 346-361 and 402-418: one iteration of the walk over a room's
\* students from the back; t = [room, moved]
WalkStep(t, i, limit, minPer) ==
  IF Len(t.moved) >= limit THEN t
  ELSE LET student == t.room.students[i]
           currentCount == t.room.classCounts[student.className]
       IN IF CanLeave(currentCount, minPer)
            THEN [room |-> [t.room EXCEPT
                              !.students = RemoveAt(@, i),
                              !.classCounts[student.className] = currentCount - 1],
                  moved |-> <<student>> \o t.moved]
            ELSE t

\* the iterations for the indexes hi down to lo, the upper half first
RECURSIVE WalkRange(_, _, _, _, _)
WalkRange(t, hi, lo, limit, minPer) ==
  IF hi < lo \/ Len(t.moved) >= limit THEN t
  ELSE IF hi = lo THEN WalkStep(t, hi, limit, minPer)
  ELSE LET mid == (lo + hi) \div 2
           upper == WalkRange(t, hi, mid + 1, limit, minPer)
       IN WalkRange(upper, mid, lo, limit, minPer)

\* lines 346-361 and 402-418: the walk, taking at most limit students
TakeFromBack(room, limit, minPer) ==
  WalkRange([room |-> room, moved |-> <<>>], Len(room.students), 1, limit, minPer)

\* the count of every class raised by its students in moved
CountsWith(classCounts, moved) ==
  [c \in DOMAIN classCounts |->
     classCounts[c] + Cardinality({k \in DOMAIN moved : moved[k].className = c})]

\* lines 335-373: the iteration of step 3 for room r (1-based)
TrimRoom(rs, r, sizes, minPer) ==
  LET maxSize == sizes[r]
      currentSize == Len(rs[r].students)
      t == TakeFromBack(rs[r], currentSize - maxSize, minPer)
  IN IF currentSize <= maxSize THEN rs
     ELSE IF t.moved # <<>> /\ r < Len(rs)
       THEN [rs EXCEPT ![r] = t.room,
                       ![r + 1] = [students |-> t.moved \o @.students,
                                   classCounts |-> CountsWith(@.classCounts, t.moved)]]
     ELSE [rs EXCEPT ![r] = t.room]

\* lines 385-432: the inner loop of step 4 for room r, from the room at
\* index next on; needed is never lowered
RECURSIVE RefillFrom(_, _, _, _, _, _)
RefillFrom(rs, r, next, needed, sizes, minPer) ==
  IF next > Len(rs) THEN rs
  ELSE LET nextRoomCurrentSize == Len(rs[next].students)
           over == nextRoomCurrentSize - sizes[next]
           canMove == Min2(needed, IF over > 0 THEN over ELSE 0)
           t == TakeFromBack(rs[next], canMove, minPer)
           taken == IF t.moved = <<>> THEN rs
                    ELSE [rs EXCEPT
                            ![next] = t.room,
                            ![r] = [students |-> @.students \o t.moved,
                                    classCounts |-> CountsWith(@.classCounts, t.moved)]]
       IN RefillFrom(taken, r, next + 1, needed, sizes, minPer)

\* lines 377-434: step 4 from room r on
RECURSIVE RefillRooms(_, _, _, _)
RefillRooms(rs, r, sizes, minPer) ==
  IF r > Len(rs) THEN rs
  ELSE LET currentSize == Len(rs[r].students)
           filled == IF currentSize < sizes[r]
                       THEN RefillFrom(rs, r, r + 1, sizes[r] - currentSize,
                                       sizes, minPer)
                       ELSE rs
       IN RefillRooms(filled, r + 1, sizes, minPer)

TrimGrades == {"grade7", "grade8", "grade9"}

\* one class, or two classes, of one grade
TrimRosters ==
  { BlockStudents(g, "c1", n) : g \in TrimGrades, n \in 1..MaxTrimBlock }
    \cup { BlockStudents(g, "c1", n1) \o BlockStudents(g, "c2", n2) :
             <<g, n1, n2>> \in
               { t \in TrimGrades \X (1..MaxTrimBlock) \X (1..MaxTrimBlock) :
                   t[2] + t[3] <= MaxTrimBlock } }

\* the arguments of a call (lines 218-223)
InitTrim ==
  /\ students \in TrimRosters
  /\ grade = students[1].grade
  /\ studentsPerRoom \in 1..MaxTrimBlock
  /\ distributionStrategy \in Strategies
  /\ pc = "allocate"
  /\ gradePrefixes = DefaultGradePrefixes
  /\ studentsByGrade = <<>>
  /\ gradeIndex = 0
  /\ roomStudentsList = <<>>
  /\ roomIndex = 0
  /\ allSeatingArrangements = <<>>
  /\ response = NoResponse
  /\ roomSizes = <<>>
  /\ rooms = <<>>
  /\ shuffledByClass = <<>>
  /\ remainingStudents = <<>>
  /\ grid = <<>>
  /\ studentPool = <<>>
  /\ cell = 0
  /\ sizerInput = <<>>
  /\ sizerOutput = <<>>
  /\ PageClosed

\* lines 225-265: no minimum for the grade, the shuffled list is cut
CutRandomly ==
  /\ pc = "allocate"
  /\ MinPerClassPerRoom(grade) = 0
  /\ LET sizes == calculateRoomDistribution(Len(students), studentsPerRoom,
                                            distributionStrategy)
     IN /\ roomSizes' = sizes
        /\ \E shuffled \in Shuffle(students) :
             roomStudentsList' = CutIntoRooms(shuffled, sizes, 0)
  /\ pc' = "returned"
  /\ UNCHANGED <<requestVars, studentsByGrade, gradeIndex, grade, roomIndex,
                 outVars, rooms, shuffledByClass, remainingStudents, gridVars,
                 sizerVars, pageVars>>

\* lines 225-331: steps 1 and 2
SeedAndJoin ==
  /\ pc = "allocate"
  /\ MinPerClassPerRoom(grade) # 0
  /\ LET sizes == calculateRoomDistribution(Len(students), studentsPerRoom,
                                            distributionStrategy)
         minPer == MinPerClassPerRoom(grade)
     IN /\ roomSizes' = sizes
        /\ \E byClass \in ShuffleEach(GroupByClass(students)) :
             /\ shuffledByClass' = byClass
             /\ rooms' \in ShuffleRooms([r \in DOMAIN sizes |->
                                           JoinedRoom(byClass, r, minPer, Len(sizes))])
  /\ roomIndex' = 0
  /\ pc' = "step3"
  /\ UNCHANGED <<requestVars, studentsByGrade, gradeIndex, grade,
                 roomStudentsList, outVars, remainingStudents, gridVars, sizerVars, pageVars>>

\* lines 335-373: one iteration of step 3
TrimNextRoom ==
  /\ pc = "step3"
  /\ roomIndex < Len(rooms)
  /\ rooms' = TrimRoom(rooms, roomIndex + 1, roomSizes, MinPerClassPerRoom(grade))
  /\ roomIndex' = roomIndex + 1
  /\ UNCHANGED <<requestVars, pc, studentsByGrade, gradeIndex, grade,
                 roomStudentsList, outVars, roomSizes, shuffledByClass,
                 remainingStudents, gridVars, sizerVars, pageVars>>

\* lines 375-436: step 4 and the return
RefillAndReturn ==
  /\ pc = "step3"
  /\ roomIndex >= Len(rooms)
  /\ LET filled == RefillRooms(rooms, 1, roomSizes, MinPerClassPerRoom(grade))
     IN /\ rooms' = filled
        /\ roomStudentsList' = [r \in DOMAIN filled |-> filled[r].students]
  /\ pc' = "returned"
  /\ UNCHANGED <<requestVars, studentsByGrade, gradeIndex, grade, roomIndex,
                 outVars, roomSizes, shuffledByClass, remainingStudents, gridVars,
                 sizerVars, pageVars>>

NextTrim == CutRandomly \/ SeedAndJoin \/ TrimNextRoom \/ RefillAndReturn

SpecTrim == InitTrim /\ [][NextTrim]_vars

\* the students held by the rooms, room after room
InRooms == Flatten([r \in DOMAIN rooms |-> rooms[r].students])

\* C23: while step 3 of the first allocator of generate-seating/route.ts
\* trims the rooms, the last one included, the rooms together hold every
\* student of the call: a student taken out of a room is put into another.
NoLossWhileTrimming ==
  pc = "step3" => BagOfSeq(InRooms) = BagOfSeq(students)

----------------------------------------------------------------------------
\* Properties of the second pass (part_000 lines 107-126), checked under
\* SpecGrid

\* the neighbour set the code computes for the cell being filled
AdjacentNow == getAdjacentClasses(grid, CellRow(cell), CellCol(cell))

\* the first pass finds nobody for the cell being filled
FirstPassFails == FillingCell /\ FirstFit(studentPool, AdjacentNow) = 0

\* C24: whenever the first pass finds no pool student whose class is outside
\* the neighbour set, the second pass selects nobody either, and the cell is
\* filled by the random fallback: any student of the pool may get it.
SecondPassIneffective ==
  FirstPassFails =>
    /\ MostRemaining(studentPool, AdjacentNow) = 0
    /\ CellOutcomes([grid |-> grid, pool |-> studentPool], cell, gradePrefixes, 1)
         = { PlaceAt([grid |-> grid, pool |-> studentPool], cell, idx,
                     gradePrefixes, 1) : idx \in DOMAIN studentPool }

\* the first pass fails for a cell below and right of occupied cells, with
\* several students left in the pool, all of a neighbour's class
SecondPassIneffectiveWitness ==
  /\ FirstPassFails
  /\ CellRow(cell) >= 1 /\ CellCol(cell) >= 1
  /\ Len(studentPool) >= 2
  /\ \A i \in DOMAIN studentPool : studentPool[i].className \in AdjacentNow

----------------------------------------------------------------------------
\* Properties of phase 2 (part_000 lines 344-380), checked under Spec

\* the students room r holds above its target size, before the step
ExcessOf(r) == Len(rooms[r].students) - rooms[r].targetSize

\* C25: in phase 2 an appended student never takes a room other than the
\* last above its target size; a room at or above its target receives a
\* pooled student only if it is the last room and no room is below its target.
OverflowNeverOverfills ==
  [][PlacingRemaining =>
       \A r \in DOMAIN rooms :
         Len(rooms'[r].students) > Len(rooms[r].students) =>
           /\ r # Len(rooms) => Len(rooms'[r].students) <= rooms[r].targetSize
           /\ ExcessOf(r) >= 0 =>
                /\ r = Len(rooms)
                /\ \A q \in DOMAIN rooms : ExcessOf(q) >= 0]_vars

\* phase 2 is about to place a student while none of several rooms is below
\* its target, one of the rooms before the last being above it
OverflowNeverOverfillsWitness ==
  /\ PlacingRemaining
  /\ QuotaRoomsStarted
  /\ Len(rooms) >= 2
  /\ \A q \in DOMAIN rooms : ExcessOf(q) >= 0
  /\ \E q \in 1..(Len(rooms) - 1) : ExcessOf(q) > 0

----------------------------------------------------------------------------
\* Bounds of the planned sizes (checked under SpecSizer)

\* C26: for every totalStudents >= 1 and studentsPerRoom >= 1 every planned
\* size is at least 1; with "separate" and "average" every size is at most
\* studentsPerRoom; with "last" every room but the last has exactly
\* studentsPerRoom and the last room less than twice that.
RoomSizeBounds ==
  pc = "planned" =>
    LET perRoom == sizerInput.studentsPerRoom
        n == Len(sizerOutput)
    IN /\ \A i \in 1..n : sizerOutput[i] >= 1
       /\ sizerInput.strategy \in {"separate", "average"} =>
            \A i \in 1..n : sizerOutput[i] <= perRoom
       /\ sizerInput.strategy = "last" =>
            /\ \A i \in 1..(n - 1) : sizerOutput[i] = perRoom
            /\ n >= 1 => sizerOutput[n] < 2 * perRoom

\* a plan of several rooms under "last" whose last room is above the capacity
RoomSizeBoundsWitness ==
  /\ pc = "planned"
  /\ sizerInput.strategy = "last"
  /\ Len(sizerOutput) >= 3
  /\ sizerOutput[Len(sizerOutput)] > sizerInput.studentsPerRoom

----------------------------------------------------------------------------
\* Properties of the returned rooms (checked under Spec)

\* C27: every returned arrangement holds at least one seat, in the grades
\* with a minimum as in the grades without.
NoEmptyRoom ==
  Answered =>
    \A a \in DOMAIN response.seatingArrangements :
      Len(response.seatingArrangements[a].students) >= 1

----------------------------------------------------------------------------
\* The page (src/src/app/page.tsx): uploads, generations and exports of
\* Home.  The buttons are disabled while loading is true (lines 541, 568,
\* 667, 693), so one handler runs at a time; the prefix field (lines 446-455)
\* is never disabled.  The generate-seating route is the POST handler above.

\* the number of data rows of a room sheet and of a rendered table
\* (line 1018: row < 6; line 387: [0, 1, 2, 3, 4, 5])
SheetRows == 6

\* a class roster that fills one room of the default capacity and two more seats
LargePageRoster == 38

\* the default studentsPerRoom of POST (line 450), not sent by the page
DefaultPerRoom == 36

\* a value typed into the prefix field (line 449)
TypedPrefix == <<9, 9>>

PagePrefixes == {InitialPrefix, TypedPrefix}

\* the rosters an uploaded file can hold
PageRosters ==
  { BlockStudents("grade7", "c1", 1),
    BlockStudents("grade7", "c1", 2) \o BlockStudents("grade7", "c2", 1),
    BlockStudents("grade7", "c1", LargePageRoster),
    BlockStudents("grade8", "c1", 5),
    BlockStudents("grade7", "c1", 1) \o BlockStudents("grade8", "c1", 4) }

\* what fetch('/api/upload-excel') can resolve to (lines 123-128): the HTTP
\* status is ok or not, the body has success or not, students is an array or
\* not
UploadResponses ==
  [ok : BOOLEAN, success : {TRUE}, isArray : {TRUE}, students : PageRosters \cup {<<>>}]
    \cup [ok : {TRUE}, success : BOOLEAN, isArray : BOOLEAN, students : {<<>>}]

\* a handler that writes students, seatingArrangements, localStorage and
\* error sees and leaves this part of the page
PageState ==
  [students |-> pageStudents, seatingArrangements |-> seatingArrangements,
   localStorage |-> localStorage, error |-> error]

\* handleFileRead without lines 177-178: the old seating arrangements stay
handleFileRead_keepsSeating(st, result) ==
  IF ~result.ok THEN [st EXCEPT !.error = "upload failed"]
  ELSE IF result.success /\ result.isArray
    THEN IF Len(result.students) = 0
           THEN [st EXCEPT !.error = "no students"]
           ELSE [st EXCEPT !.students = result.students,
                           !.localStorage.students = <<result.students>>]
  ELSE [st EXCEPT !.error = "malformed"]

\* handleFileRead from the resolved response on (lines 156-185)
handleFileRead(st, result) ==
  IF ~result.ok THEN [st EXCEPT !.error = "upload failed"]
  ELSE IF result.success /\ result.isArray
    THEN IF Len(result.students) = 0
           THEN [st EXCEPT !.error = "no students"]
           ELSE [st EXCEPT !.students = result.students,
                           !.localStorage.students = <<result.students>>,
                           !.seatingArrangements = <<>>,
                           !.localStorage.seatingArrangements = Null]
  ELSE [st EXCEPT !.error = "malformed"]

\* groups[col - 1] after the sort by row (lines 1006-1015, 322-330):
\* Array.prototype.sort is stable
GroupOf(seats, col) ==
  LET group == SelectSeq(seats, LAMBDA seat : seat.col = col)
      position(i) == 1 + Cardinality({j \in DOMAIN group :
                                        \/ group[j].row < group[i].row
                                        \/ /\ group[j].row = group[i].row
                                           /\ j < i})
  IN [k \in DOMAIN group |-> group[CHOOSE i \in DOMAIN group : position(i) = k]]

\* the four cells written for a seat (lines 1022-1027)
SheetEntry(seat) ==
  [seatNumber |-> PadStart(Digits(seat.seatNumber), PadWidth),
   name |-> seat.name,
   className |-> IF seat.className # "" THEN seat.className ELSE seat.grade,
   examId |-> seat.examId]

\* the data rows of a room sheet (lines 1017-1033); the table of
\* renderSeatingTable (lines 387-410) has the same rows
SheetData(seats) ==
  [row \in 1..SheetRows |->
     [col \in 1..Cols |->
        IF row <= Len(GroupOf(seats, col))
          THEN <<SheetEntry(GroupOf(seats, col)[row])>>
          ELSE Null]]

InitPage ==
  /\ Idle
  /\ students = <<>>
  /\ pc = "page"
  /\ grid = <<>>
  /\ studentPool = <<>>
  /\ cell = 0
  /\ sizerInput = <<>>
  /\ sizerOutput = <<>>
  /\ PageClosed

\* line 449: onChange of the prefix field
SetPrefix ==
  /\ prefix' \in PagePrefixes \ {prefix}
  /\ UNCHANGED <<requestVars, pc, postVars, outVars, allocVars, gridVars,
                 sizerVars, pageStudents, seatingArrangements, localStorage,
                 loading, error, bodyPrefix, uploadResponse, workbook>>

\* lines 115-128: a file is submitted and the upload request sent
SubmitFile ==
  /\ ~loading
  /\ loading' = TRUE
  /\ error' = ""
  /\ uploadResponse' \in { <<result>> : result \in UploadResponses }
  /\ UNCHANGED <<requestVars, pc, postVars, outVars, allocVars, gridVars,
                 sizerVars, pageStudents, seatingArrangements, localStorage,
                 prefix, bodyPrefix, workbook>>

\* lines 128-189: the upload response is handled
UploadAnswered ==
  /\ loading
  /\ uploadResponse # Null
  /\ LET st == handleFileRead(PageState, uploadResponse[1])
     IN /\ pageStudents' = st.students
        /\ seatingArrangements' = st.seatingArrangements
        /\ localStorage' = st.localStorage
        /\ error' = st.error
  /\ uploadResponse' = Null
  /\ loading' = FALSE
  /\ UNCHANGED <<requestVars, pc, postVars, outVars, allocVars, gridVars,
                 sizerVars, prefix, bodyPrefix, workbook>>

\* lines 194-197: generation without a roster
GenerateRefused ==
  /\ ~loading
  /\ Len(pageStudents) = 0
  /\ error' = "upload first"
  /\ UNCHANGED <<requestVars, pc, postVars, outVars, allocVars, gridVars,
                 sizerVars, pageStudents, seatingArrangements, localStorage,
                 prefix, loading, bodyPrefix, uploadResponse, workbook>>

\* lines 199-212: the body { students, prefix } is sent; POST (part_000 lines
\* 443-452) reads students and takes gradePrefixes, studentsPerRoom and
\* distributionStrategy from their defaults
generateSeating ==
  /\ ~loading
  /\ Len(pageStudents) # 0
  /\ loading' = TRUE
  /\ error' = ""
  /\ bodyPrefix' = prefix
  /\ students' = pageStudents
  /\ gradePrefixes' = DefaultGradePrefixes
  /\ studentsPerRoom' = DefaultPerRoom
  /\ distributionStrategy' = "last"
  /\ pc' = "validate"
  /\ studentsByGrade' = <<>>
  /\ gradeIndex' = 0
  /\ grade' = ""
  /\ roomStudentsList' = <<>>
  /\ roomIndex' = 0
  /\ allSeatingArrangements' = <<>>
  /\ response' = NoResponse
  /\ roomSizes' = <<>>
  /\ rooms' = <<>>
  /\ shuffledByClass' = <<>>
  /\ remainingStudents' = <<>>
  /\ UNCHANGED <<gridVars, sizerVars, pageStudents, seatingArrangements,
                 localStorage, prefix, uploadResponse, workbook>>

\* lines 214-250: the response of the generation is handled
SeatingAnswered ==
  /\ loading
  /\ pc = "done"
  /\ IF response.status = 200
       THEN /\ seatingArrangements' = response.seatingArrangements
            /\ localStorage' =
                 [localStorage EXCEPT
                    !.seatingArrangements = <<response.seatingArrangements>>,
                    !.prefix = <<bodyPrefix>>]
            /\ error' = error
       ELSE /\ error' = response.error
            /\ UNCHANGED <<seatingArrangements, localStorage>>
  /\ loading' = FALSE
  /\ pc' = "page"
  /\ UNCHANGED <<requestVars, postVars, outVars, allocVars, gridVars,
                 sizerVars, pageStudents, prefix, bodyPrefix, uploadResponse,
                 workbook>>

\* lines 254-299 with the export route (lines 1006-1033): one sheet for each
\* arrangement
exportToExcel ==
  /\ ~loading
  /\ Len(seatingArrangements) # 0
  /\ workbook' = [a \in DOMAIN seatingArrangements |->
                    SheetData(seatingArrangements[a].students)]
  /\ error' = ""
  /\ UNCHANGED <<requestVars, pc, postVars, outVars, allocVars, gridVars,
                 sizerVars, pageStudents, seatingArrangements, localStorage,
                 prefix, loading, bodyPrefix, uploadResponse>>

NextPage ==
  \/ SetPrefix
  \/ SubmitFile
  \/ UploadAnswered
  \/ GenerateRefused
  \/ generateSeating
  \/ Accept
  \/ DistributeRandom
  \/ DistributeStart
  \/ SeedRooms
  \/ CollectRemaining
  \/ PlaceRemaining
  \/ Rebalance
  \/ ReturnRooms
  \/ SeatRooms
  \/ NextGrade
  \/ Respond
  \/ SeatingAnswered
  \/ exportToExcel

SpecPage == InitPage /\ [][NextPage]_vars

----------------------------------------------------------------------------
\* The claims about the page

\* the cells of a sheet that hold the entry of a seat
EntriesOf(data, seat) ==
  { rc \in (1..SheetRows) \X (1..Cols) :
      /\ data[rc[1]][rc[2]] # Null
      /\ data[rc[1]][rc[2]][1] = SheetEntry(seat) }

\* C28: whenever the page exports, the sheet of every arrangement holds
\* exactly one entry for every placement of the room; no placement is
\* omitted, whatever the size of the room.
ExportCompleteness ==
  [][(workbook' # workbook) =>
       \A a \in DOMAIN seatingArrangements :
         \A j \in DOMAIN seatingArrangements[a].students :
           Cardinality(EntriesOf(workbook'[a],
                                 seatingArrangements[a].students[j])) = 1]_vars

\* C29: when the response of a generation arrives, every examId in it is the
\* prefix sent with the request, the value of the prefix field when the
\* generation was triggered, followed by the room and the seat.
ConfiguredPrefixUsed ==
  (loading /\ pc = "done" /\ response.status = 200) =>
    \A a \in DOMAIN response.seatingArrangements :
      \A j \in DOMAIN response.seatingArrangements[a].students :
        LET seat == response.seatingArrangements[a].students[j]
        IN seat.examId = bodyPrefix \o PadStart(Digits(seat.roomNumber), PadWidth)
                                    \o PadStart(Digits(seat.seatNumber), PadWidth)

\* the response of the upload in flight is a failure: an HTTP error, a
\* malformed body or no students
UploadFailed ==
  \/ ~uploadResponse[1].ok
  \/ ~uploadResponse[1].success
  \/ ~uploadResponse[1].isArray
  \/ Len(uploadResponse[1].students) = 0

\* the step that handles the upload response
UploadEffect ==
  (uploadResponse # Null /\ uploadResponse' = Null) =>
    IF UploadFailed
      THEN UNCHANGED <<pageStudents, seatingArrangements,
                       localStorage.students, localStorage.seatingArrangements>>
      ELSE /\ pageStudents' = uploadResponse[1].students
           /\ localStorage'.students = <<uploadResponse[1].students>>
           /\ seatingArrangements' = <<>>
           /\ localStorage'.seatingArrangements = Null

\* the students of a roster, and the students seated by arrangements, as
\* bags of [name, className, grade]
RosterBag(roster) == BagOfSeq(roster)

SeatedBag(arrangements) ==
  BagOfSeq(Flatten([a \in DOMAIN arrangements |->
                      [j \in DOMAIN arrangements[a].students |->
                         Student(arrangements[a].students[j].grade,
                                 arrangements[a].students[j].className)]]))

\* arrangements that are not empty were generated from the current roster,
\* in component state and in localStorage
ArrangementsFromRoster ==
  /\ seatingArrangements # <<>> =>
       /\ students = pageStudents
       /\ SeatedBag(seatingArrangements) = RosterBag(pageStudents)
  /\ localStorage.seatingArrangements # Null =>
       /\ localStorage.students = <<pageStudents>>
       /\ localStorage.seatingArrangements = <<seatingArrangements>>

\* C30: a successful upload replaces the roster and clears the seating
\* arrangements in component state and in localStorage, a failed upload
\* changes neither, and arrangements that are not empty always stem from the
\* current roster.
RosterConsistency == [][UploadEffect]_vars /\ []ArrangementsFromRoster

\* a seating was generated (its prefix is still saved), a later upload
\* replaced the roster and cleared the seating, and the upload after that
\* failed and left the page as it was
RosterConsistencyWitness ==
  /\ ~loading
  /\ localStorage.prefix # Null
  /\ pageStudents # <<>>
  /\ localStorage.students = <<pageStudents>>
  /\ seatingArrangements = <<>>
  /\ localStorage.seatingArrangements = Null
  /\ error = "upload failed"

============================================================================
